---- MODULE Spec2Model ----
(***************************************************************************)
(* systemd-sysctl (C++ port), src/sysctl/sysctl.cpp.                       *)
(*                                                                         *)
(* Strings are sequences of one-character strings, so that the scans of    *)
(* sysctl_normalize_cpp and the prefix tests work character by character.  *)
(* Error codes are integers: sysctl_write returns 0 or a negative errno,   *)
(* parse_file and parse_argv assign a positive EINVAL.                     *)
(***************************************************************************)
EXTENDS Integers, Sequences, FiniteSets, TLC

\* ------------------------------------------------------------------ bounds
MaxLen ==
    4
MaxEntries ==
    3
MaxPrefixes ==
    2
MaxFiles ==
    2

\* ------------------------------------------------------- program constants
EPERM ==
    1
ENOENT ==
    2
EIO ==
    5
EACCES ==
    13
EINVAL ==
    22
EROFS ==
    30

\* "/proc/sys/", the root test_prefix strips from a filter
ProcSysSlash ==
    <<"/","p","r","o","c","/","s","y","s","/">>
\* "/proc/sys", the root parse_argv looks for before prepending "/proc/sys/"
ProcSys ==
    <<"/","p","r","o","c","/","s","y","s">>

\* ------------------------------------------------------------- string data
S_net ==
    <<"n","e","t">>
S_vm ==
    <<"v","m">>
S_net_ipv4 ==
    <<"n","e","t",".","i","p","v","4">>
S_proc_sys_net ==
    <<"/","p","r","o","c","/","s","y","s","/","n","e","t">>
S_proc_sys_vm ==
    <<"/","p","r","o","c","/","s","y","s","/","v","m">>
N_net_dotted ==
    <<"n","e","t",".","i","p","v","4",".","i","p","_","f","o","r","w","a","r","d">>
N_kernel_dotted ==
    <<"k","e","r","n","e","l",".","p","a","n","i","c">>
N_net_slashed ==
    <<"n","e","t","/","i","p","v","4","/","i","p","_","f","o","r","w","a","r","d">>
N_kernel_slashed ==
    <<"k","e","r","n","e","l","/","p","a","n","i","c">>
N_net_abs ==
    <<"/","p","r","o","c","/","s","y","s","/","n","e","t","/","i","p","v","4","/","i","p","_","f","o","r","w","a","r","d">>
N_kernel_abs ==
    <<"/","p","r","o","c","/","s","y","s","/","k","e","r","n","e","l","/","p","a","n","i","c">>
V_1 ==
    <<"1">>
V_10 ==
    <<"1","0">>
V_1_5 ==
    <<"1",".","5">>
V_1s5 ==
    <<"1","/","5">>
V_dot_first ==
    <<"a",".","b","/","c">>
V_slash_first ==
    <<"a","/","b",".","c">>
S_a_b_c ==
    <<"a",".","b",".","c">>
S_aSbSc ==
    <<"a","/","b","/","c">>

\* All sequences over S of length at most n
SeqsUpTo(S, n) ==
    UNION { [1..m -> S] : m \in 0..n }

\* Sequences without a repeated element
Injective(q) ==
    \A i, j \in 1..Len(q) : q[i] = q[j] => i = j

\* ------------------------------------------------------ sysctl_normalize_cpp
\* The range-for of sysctl_normalize_cpp over its by-value copy t, at
\* character i, with the flag found_dot_already.
RECURSIVE normalize_scan(_, _, _)
normalize_scan(t, i, found_dot_already) ==
    IF i > Len(t) THEN t
    ELSE IF t[i] = "/"
         THEN IF ~found_dot_already
              THEN t
              ELSE normalize_scan([t EXCEPT ![i] = "."], i + 1, found_dot_already)
         ELSE IF t[i] = "."
              THEN normalize_scan([t EXCEPT ![i] = "/"], i + 1, TRUE)
              ELSE normalize_scan(t, i + 1, found_dot_already)

\* Faulty variant: every delimiter is swapped, with no early return on a leading slash.
normalize_swap_all(t) ==
    [i \in 1..Len(t) |-> IF t[i] = "/" THEN "." ELSE IF t[i] = "." THEN "/" ELSE t[i]]

\* Faulty variant: dots become slashes, but a slash after a dot is left alone.
normalize_dots_only(t) ==
    IF \E i \in 1..Len(t) : t[i] = "/" /\ \A j \in 1..(i - 1) : t[j] # "."
    THEN t
    ELSE [i \in 1..Len(t) |-> IF t[i] = "." THEN "/" ELSE t[i]]

sysctl_normalize_cpp(t) ==
    normalize_scan(t, 1, FALSE)

\* ------------------------------------------------------------ path_startswith
\* The part of path after prefix when path begins with prefix (a byte-wise
\* prefix test), else NoMatch (the NULL of the C function).
NoMatch ==
    <<"NULL">>

path_startswith(path, prefix) ==
    IF Len(prefix) <= Len(path) /\ SubSeq(path, 1, Len(prefix)) = prefix
    THEN SubSeq(path, Len(prefix) + 1, Len(path))
    ELSE NoMatch

\* ---------------------------------------------------------------- test_prefix
\* The t of the loop body: the filter without its "/proc/sys/" root.
prefix_tail(f) ==
    IF path_startswith(f, ProcSysSlash) # NoMatch
    THEN path_startswith(f, ProcSysSlash)
    ELSE f

\* Faulty variant: the root is not stripped from the filter.
test_prefix_unstripped(p, prefixes) ==
    \/ prefixes = <<>>
    \/ \E j \in 1..Len(prefixes) : path_startswith(p, prefixes[j]) # NoMatch

test_prefix(p, prefixes) ==
    \/ prefixes = <<>>
    \/ \E j \in 1..Len(prefixes) : path_startswith(p, prefix_tail(prefixes[j])) # NoMatch

\* ------------------------------------------------------------------- inputs
\* Characters of the strings handed to the normalizer
Alphabet ==
    {"a", "b", ".", "/"}

NormInputs ==
    SeqsUpTo(Alphabet, MaxLen) \cup {S_a_b_c, V_slash_first, V_dot_first, N_net_dotted, N_net_abs}

\* Settings (name, value) as the INI parser hands them over: names and values
\* verbatim from the file, values trimmed.
EntryPool ==
    { <<N_net_dotted, V_1>>, <<N_kernel_dotted, V_10>>,
      <<N_net_slashed, V_1_5>>, <<N_kernel_slashed, V_dot_first>>,
      <<N_net_abs, V_slash_first>> }

\* A property tree read from one file holds no key twice (read_ini rejects
\* a duplicate key).
EntryLists ==
    { q \in SeqsUpTo(EntryPool, MaxEntries) : Injective(q) }

\* --prefix arguments as typed on the command line
PrefixArgs ==
    { S_net, S_net_ipv4, S_proc_sys_net, S_vm }

ConfFiles ==
    {"a.conf", "b.conf"}

FileContent(f) ==
    IF f = "a.conf"
    THEN << <<N_net_dotted, V_1>>, <<N_kernel_dotted, V_10>> >>
    ELSE << <<N_net_slashed, V_1_5>> >>

Modes ==
    {"run", "help", "version", "invalid"}

\* What sysctl_write can return: 0 or a negative errno.
WriteResults ==
    {0, -EPERM, -EACCES, -EROFS, -ENOENT, -EIO, -EINVAL}

\* -------------------------------------------------------------------- state
VARIABLES
    pc,             \* position of the program
    argv,           \* the command line: mode, --prefix values, positional files
    dir,            \* the sysctl.d directory: readable or not, and its listing
    valid,          \* per configuration file: whether read_ini can parse it now
    arg_prefixes,   \* main's arg_prefixes
    arg_conf_files, \* main's arg_conf_files
    fi,             \* index of the file main's loop is at
    sysctl_options, \* main's property tree: ordered (name, value) pairs
    r,              \* main's r
    k,              \* main's k
    idx,            \* apply_all: index of the entry the range-for is at
    ar,             \* apply_all's r
    writes,         \* every sysctl_write issued, in order, with its outcome
    exit,           \* the process exit status, once main has returned
    parse_failed,   \* whether some parse_file call returned an error
    norm_in,        \* the argument of a call of sysctl_normalize_cpp
    norm_out        \* its result

vars ==
    <<pc, argv, dir, valid, arg_prefixes, arg_conf_files, fi, sysctl_options,
      r, k, idx, ar, writes, exit, parse_failed, norm_in, norm_out>>

\* ---------------------------------------------------------------- parse_argv
\* The loop body over arg_prefixes at the end of parse_argv.
normalize_prefix(p) ==
    LET n == sysctl_normalize_cpp(p)
    IN  IF path_startswith(n, ProcSys) = NoMatch THEN ProcSysSlash \o n ELSE n

\* The list main iterates: the positional files, or the directory listing.
Sources ==
    IF arg_conf_files # <<>> THEN arg_conf_files ELSE dir.list

\* -------------------------------------------------------------------- apply_all
IsBenign(code) ==
    code \in {-EPERM, -EACCES, -EROFS, -ENOENT}

\* Faulty variant: the raw value is written.
write_value_raw(entry) ==
    entry[2]

\* The value handed to sysctl_write.
write_value(entry) ==
    sysctl_normalize_cpp(entry[2])

\* Faulty variant: every fatal code overwrites the recorded one.
record_result_last(r0, k0) ==
    IF k0 # 0 /\ ~IsBenign(k0) THEN k0 ELSE r0

\* apply_all's r after a write that returned k0.
record_result(r0, k0) ==
    IF k0 # 0 /\ ~IsBenign(k0) /\ r0 = 0 THEN k0 ELSE r0

\* Faulty variant: a fatal failure ends the loop.
next_entry_break(i, n, k0) ==
    IF k0 # 0 /\ ~IsBenign(k0) THEN n + 1 ELSE i + 1

\* The range-for's advance after the write of entry i of n returned k0.
next_entry(i, n, k0) ==
    i + 1

LogLevel(k0) ==
    IF k0 = 0 THEN "none" ELSE IF IsBenign(k0) THEN "notice" ELSE "error"

\* ------------------------------------------------------------------- actions
\* main up to the file loop: parse_argv, then logging setup and r.clear().
ParseArgv ==
    /\ pc = "parse_argv"
    /\ \/ /\ argv.mode = "invalid"
          /\ pc' = "aborted"
          /\ UNCHANGED <<arg_prefixes, arg_conf_files, r, exit>>
       \/ /\ argv.mode \in {"help", "version"}
          /\ arg_prefixes' = argv.prefix
          /\ arg_conf_files' = argv.files
          /\ r' = EINVAL
          /\ exit' = "EXIT_FAILURE"
          /\ pc' = "done"
       \/ /\ argv.mode = "run"
          /\ arg_prefixes' = [j \in 1..Len(argv.prefix) |-> normalize_prefix(argv.prefix[j])]
          /\ arg_conf_files' = argv.files
          /\ r' = 0
          /\ exit' = exit
          /\ pc' = "main_sources"
    /\ UNCHANGED <<argv, dir, valid, fi, sysctl_options, k, idx, ar, writes,
                   parse_failed, norm_in, norm_out>>

\* main: the choice between the positional files and the directory.
OpenSources ==
    /\ pc = "main_sources"
    /\ \/ /\ arg_conf_files = <<>>
          /\ ~dir.ok
          /\ pc' = "aborted"
       \/ /\ arg_conf_files # <<>> \/ dir.ok
          /\ pc' = IF Sources = <<>> THEN "apply_all" ELSE "parse_file"
    /\ UNCHANGED <<argv, dir, valid, arg_prefixes, arg_conf_files, fi,
                   sysctl_options, r, k, idx, ar, writes, exit, parse_failed,
                   norm_in, norm_out>>

\* parse_file: read_ini succeeds; the tree is replaced by the file's content
\* and control reaches the end of the for(;;) body.
ReadIniOk ==
    /\ pc = "parse_file"
    /\ valid[Sources[fi]]
    /\ sysctl_options' = FileContent(Sources[fi])
    /\ pc' = "parse_loop"
    /\ UNCHANGED <<argv, dir, valid, arg_prefixes, arg_conf_files, fi, r, k,
                   idx, ar, writes, exit, parse_failed, norm_in, norm_out>>

\* parse_file: the for(;;) goes round.
ParseLoopAgain ==
    /\ pc = "parse_loop"
    /\ pc' = "parse_file"
    /\ UNCHANGED <<argv, dir, valid, arg_prefixes, arg_conf_files, fi,
                   sysctl_options, r, k, idx, ar, writes, exit, parse_failed,
                   norm_in, norm_out>>

\* parse_file: read_ini throws; parse_file returns EINVAL and main records it
\* and moves to the next file, or to apply_all after the last one.
ReadIniThrow ==
    /\ pc = "parse_file"
    /\ ~valid[Sources[fi]]
    /\ k' = EINVAL
    /\ r' = IF k' # 0 /\ r = 0 THEN k' ELSE r
    /\ parse_failed' = TRUE
    /\ fi' = fi + 1
    /\ pc' = IF fi < Len(Sources) THEN "parse_file" ELSE "apply_all"
    /\ UNCHANGED <<argv, dir, valid, arg_prefixes, arg_conf_files,
                   sysctl_options, idx, ar, writes, exit, norm_in, norm_out>>

\* Outside the program: the file being parsed is removed or damaged.
RemoveFile ==
    /\ pc \in {"parse_file", "parse_loop"}
    /\ valid[Sources[fi]]
    /\ valid' = [valid EXCEPT ![Sources[fi]] = FALSE]
    /\ UNCHANGED <<pc, argv, dir, arg_prefixes, arg_conf_files, fi,
                   sysctl_options, r, k, idx, ar, writes, exit, parse_failed,
                   norm_in, norm_out>>

\* apply_all: an entry that fails test_prefix is passed over.
ApplySkip ==
    /\ pc = "apply_all"
    /\ idx <= Len(sysctl_options)
    /\ ~test_prefix(sysctl_options[idx][1], arg_prefixes)
    /\ idx' = idx + 1
    /\ UNCHANGED <<pc, argv, dir, valid, arg_prefixes, arg_conf_files, fi,
                   sysctl_options, r, k, ar, writes, exit, parse_failed,
                   norm_in, norm_out>>

\* apply_all: an entry that passes is written once; the result is classified.
ApplyWrite ==
    /\ pc = "apply_all"
    /\ idx <= Len(sysctl_options)
    /\ test_prefix(sysctl_options[idx][1], arg_prefixes)
    /\ \E res \in WriteResults :
          /\ writes' = Append(writes, [entry  |-> idx,
                                       name   |-> sysctl_options[idx][1],
                                       value  |-> write_value(sysctl_options[idx]),
                                       result |-> res,
                                       log    |-> LogLevel(res)])
          /\ ar' = record_result(ar, res)
          /\ idx' = next_entry(idx, Len(sysctl_options), res)
    /\ UNCHANGED <<pc, argv, dir, valid, arg_prefixes, arg_conf_files, fi,
                   sysctl_options, r, k, exit, parse_failed, norm_in, norm_out>>

\* apply_all returns; main folds the result into r and returns.
ApplyReturn ==
    /\ pc = "apply_all"
    /\ idx > Len(sysctl_options)
    /\ k' = ar
    /\ r' = IF k' # 0 /\ r = 0 THEN k' ELSE r
    /\ exit' = IF r' # 0 THEN "EXIT_FAILURE" ELSE "EXIT_SUCCESS"
    /\ pc' = "done"
    /\ UNCHANGED <<argv, dir, valid, arg_prefixes, arg_conf_files, fi,
                   sysctl_options, idx, ar, writes, parse_failed, norm_in,
                   norm_out>>

\* A call of sysctl_normalize_cpp.
Normalize ==
    /\ pc = "normalize"
    /\ norm_out' = sysctl_normalize_cpp(norm_in)
    /\ pc' = "normalized"
    /\ UNCHANGED <<argv, dir, valid, arg_prefixes, arg_conf_files, fi,
                   sysctl_options, r, k, idx, ar, writes, exit, parse_failed,
                   norm_in>>

\* ------------------------------------------------------------ specifications
Dirs ==
    [ok : {TRUE}, list : SeqsUpTo(ConfFiles, MaxFiles)] \cup {[ok |-> FALSE, list |-> <<>>]}

NoDir ==
    [ok |-> TRUE, list |-> <<>>]

NoArgv ==
    [mode |-> "run", prefix |-> <<>>, files |-> <<>>]

\* The whole program, from its command line.
Init ==
    /\ pc = "parse_argv"
    /\ argv \in [mode : Modes, prefix : SeqsUpTo(PrefixArgs, MaxPrefixes),
                 files : SeqsUpTo(ConfFiles, MaxFiles)]
    /\ dir \in Dirs
    /\ argv.files # <<>> => dir = NoDir
    /\ valid \in [ConfFiles -> BOOLEAN]
    /\ arg_prefixes = <<>>
    /\ arg_conf_files = <<>>
    /\ fi = 1
    /\ sysctl_options = <<>>
    /\ r = 0
    /\ k = 0
    /\ idx = 1
    /\ ar = 0
    /\ writes = <<>>
    /\ exit = "running"
    /\ parse_failed = FALSE
    /\ norm_in = <<>>
    /\ norm_out = <<>>

Program ==
    \/ ParseArgv
    \/ OpenSources
    \/ ReadIniOk
    \/ ParseLoopAgain
    \/ ReadIniThrow
    \/ ApplySkip
    \/ ApplyWrite
    \/ ApplyReturn

Next ==
    \/ Program
    \/ RemoveFile

Spec ==
    Init /\ [][Next]_vars

\* The program is one thread that always takes its next step; the outside
\* world is under no obligation to touch the files.
FairSpec ==
    Spec /\ WF_vars(Program)

\* apply_all as main calls it: a loaded tree and the filters parse_argv made.
InitApply ==
    /\ pc = "apply_all"
    /\ argv \in [mode : {"run"}, prefix : SeqsUpTo(PrefixArgs, MaxPrefixes),
                 files : {<<>>}]
    /\ dir = NoDir
    /\ valid = [f \in ConfFiles |-> TRUE]
    /\ arg_prefixes = [j \in 1..Len(argv.prefix) |-> normalize_prefix(argv.prefix[j])]
    /\ arg_conf_files = <<>>
    /\ fi = 1
    /\ sysctl_options \in EntryLists
    /\ r = 0
    /\ k = 0
    /\ idx = 1
    /\ ar = 0
    /\ writes = <<>>
    /\ exit = "running"
    /\ parse_failed = FALSE
    /\ norm_in = <<>>
    /\ norm_out = <<>>

NextApply ==
    \/ ApplySkip
    \/ ApplyWrite
    \/ ApplyReturn

SpecApply ==
    InitApply /\ [][NextApply]_vars

\* sysctl_normalize_cpp on its own.
InitNorm ==
    /\ pc = "normalize"
    /\ argv = NoArgv
    /\ dir = NoDir
    /\ valid = [f \in ConfFiles |-> TRUE]
    /\ arg_prefixes = <<>>
    /\ arg_conf_files = <<>>
    /\ fi = 1
    /\ sysctl_options = <<>>
    /\ r = 0
    /\ k = 0
    /\ idx = 1
    /\ ar = 0
    /\ writes = <<>>
    /\ exit = "running"
    /\ parse_failed = FALSE
    /\ norm_in \in NormInputs
    /\ norm_out = <<>>

NextNorm ==
    Normalize

SpecNorm ==
    InitNorm /\ [][NextNorm]_vars

\* ------------------------------------------------------------------- claims
\* Indices of the entries written so far, in the order of the writes
WrittenIdx ==
    [j \in 1..Len(writes) |-> writes[j].entry]

Written(i) ==
    \E j \in 1..Len(writes) : writes[j].entry = i

\* Indices, in input order, of the first n entries that pass the filter
RECURSIVE PassingIdx(_)
PassingIdx(n) ==
    IF n = 0 THEN <<>>
    ELSE IF test_prefix(sysctl_options[n][1], arg_prefixes)
         THEN Append(PassingIdx(n - 1), n)
         ELSE PassingIdx(n - 1)

IsFatal(code) ==
    code # 0 /\ ~IsBenign(code)

\* The result of the first write of w that failed fatally, 0 if there is none
FirstFatal(w) ==
    IF \E j \in 1..Len(w) : IsFatal(w[j].result)
    THEN w[CHOOSE j \in 1..Len(w) :
               /\ IsFatal(w[j].result)
               /\ \A h \in 1..(j - 1) : ~IsFatal(w[h].result)].result
    ELSE 0

\* Whether a '/' occurs in t before any '.'
SlashFirst(t) ==
    \E i \in 1..Len(t) : t[i] = "/" /\ \A j \in 1..(i - 1) : t[j] # "."

NoSlash(t) ==
    \A i \in 1..Len(t) : t[i] # "/"

\* C1: the writes apply_all has issued are, at every point of its loop and
\* at its return, exactly the entries before the loop position that pass the
\* prefix filter, in input order and each once, whatever the writes returned.
C1_WriteSequence ==
    pc \in {"apply_all", "done"} => WrittenIdx = PassingIdx(idx - 1)

\* C1 witness: apply_all has returned after a fatal failure of its first
\* write, a later write, and an entry the filter kept out.
C1_Witness ==
    /\ pc = "done"
    /\ Len(writes) >= 2
    /\ IsFatal(writes[1].result)
    /\ Len(writes) < Len(sysctl_options)

\* C2: apply_all returns 0 when no write failed outside the benign set, and
\* otherwise the code of the first write that did; benign failures and later
\* fatal failures leave the result alone.
C2_FirstFatal ==
    /\ pc \in {"apply_all", "done"} => ar = FirstFatal(writes)
    /\ pc = "done" => k = FirstFatal(writes)

\* C2 witness: a benign failure, then two fatal failures with different
\* codes; the result is the first fatal code.
C2_Witness ==
    /\ pc = "done"
    /\ Len(writes) = 3
    /\ writes[1].result = -EACCES
    /\ writes[2].result = -EIO
    /\ writes[3].result = -EINVAL
    /\ k = -EIO

\* C3: sysctl_normalize_cpp keeps the length; a string with a '/' before any
\* '.' comes back unchanged; any other string comes back with every '.' and
\* '/' swapped and the other characters unchanged.
C3_Normalize ==
    pc = "normalized" =>
        /\ Len(norm_out) = Len(norm_in)
        /\ SlashFirst(norm_in) => norm_out = norm_in
        /\ ~SlashFirst(norm_in) =>
              \A i \in 1..Len(norm_in) :
                 norm_out[i] = IF norm_in[i] = "." THEN "/"
                               ELSE IF norm_in[i] = "/" THEN "."
                               ELSE norm_in[i]
        /\ norm_in = S_a_b_c => norm_out = S_aSbSc
        /\ norm_in = V_slash_first => norm_out = V_slash_first
        /\ norm_in = <<>> => norm_out = <<>>

\* C3 witness: a dotted string with a later slash has had both swapped.
C3_Witness ==
    /\ pc = "normalized"
    /\ norm_in = V_dot_first
    /\ norm_out = V_slash_first

\* C9: every write carries the entry's name as loaded and the normalized
\* value: "1.5" is written as "1/5" and "a.b/c" as "a/b.c", while "a/b.c",
\* "1" and "10" are written unchanged.
C9_WrittenValue ==
    \A j \in 1..Len(writes) :
       LET e == sysctl_options[writes[j].entry]
       IN  /\ writes[j].name = e[1]
           /\ writes[j].value = sysctl_normalize_cpp(e[2])
           /\ e[2] = V_1_5 => writes[j].value = V_1s5
           /\ e[2] = V_dot_first => writes[j].value = V_slash_first
           /\ e[2] \in {V_slash_first, V_1, V_10} => writes[j].value = e[2]

\* C9 witness: the value "1.5" has been written as "1/5".
C9_Witness ==
    \E j \in 1..Len(writes) :
       /\ sysctl_options[writes[j].entry][2] = V_1_5
       /\ writes[j].value = V_1s5

\* C10: normalizing a normalized string changes nothing, for every input.
C10_Idempotent ==
    pc = "normalized" => sysctl_normalize_cpp(norm_out) = norm_out

\* C10 witness: a string the normalizer changed, with both delimiters in it.
C10_Witness ==
    /\ pc = "normalized"
    /\ norm_out # norm_in
    /\ \E i \in 1..Len(norm_in) : norm_in[i] = "/"

\* The filter list ["/proc/sys/net", "/proc/sys/vm"]
CanonicalFilters ==
    <<S_proc_sys_net, S_proc_sys_vm>>

\* C6, as claimed: with the filters ["/proc/sys/net", "/proc/sys/vm"] an
\* entry named "/proc/sys/net/ipv4/ip_forward" passes test_prefix (apply_all
\* writes it) and "/proc/sys/kernel/panic" does not.
C6_AbsoluteNameMatches ==
    (pc = "done" /\ arg_prefixes = CanonicalFilters) =>
        /\ \A i \in 1..Len(sysctl_options) :
              sysctl_options[i][1] = N_net_abs => Written(i)
        /\ ~test_prefix(N_kernel_abs, arg_prefixes)

\* C6, amended: with the filters ["/proc/sys/net", "/proc/sys/vm"] an entry
\* named relative to the root, "net/ipv4/ip_forward", passes test_prefix and
\* "kernel/panic" does not; the absolute names "/proc/sys/net/ipv4/ip_forward"
\* and "/proc/sys/kernel/panic" do not pass, because the root is stripped from
\* the filter and not from the name.
C6_RelativeNameMatches ==
    (pc = "done" /\ arg_prefixes = CanonicalFilters) =>
        /\ \A i \in 1..Len(sysctl_options) :
              /\ sysctl_options[i][1] = N_net_slashed => Written(i)
              /\ sysctl_options[i][1] = N_kernel_slashed => ~Written(i)
              /\ sysctl_options[i][1] = N_net_abs => ~Written(i)
        /\ ~test_prefix(N_kernel_abs, arg_prefixes)

\* C6 witness: under those filters apply_all has written "net/ipv4/ip_forward"
\* and passed over "kernel/panic" and "/proc/sys/net/ipv4/ip_forward".
C6_Witness ==
    /\ pc = "done"
    /\ arg_prefixes = CanonicalFilters
    /\ Len(sysctl_options) = 3
    /\ \E i \in 1..3 : sysctl_options[i][1] = N_net_slashed /\ Written(i)
    /\ \E i \in 1..3 : sysctl_options[i][1] = N_kernel_slashed /\ ~Written(i)
    /\ \E i \in 1..3 : sysctl_options[i][1] = N_net_abs /\ ~Written(i)

\* C7: filters and entry names are compared after the same normalization:
\* with filters typed in bare or dotted form and entries named in dotted
\* form, apply_all writes exactly the entries whose normalized name begins
\* with one of the normalized filters.
C7_SameNormalization ==
    (/\ pc = "done"
     /\ argv.prefix # <<>>
     /\ \A j \in 1..Len(argv.prefix) : NoSlash(argv.prefix[j])) =>
        \A i \in 1..Len(sysctl_options) :
           NoSlash(sysctl_options[i][1]) =>
              (Written(i) <=>
                 \E j \in 1..Len(argv.prefix) :
                    path_startswith(sysctl_normalize_cpp(sysctl_options[i][1]),
                                    sysctl_normalize_cpp(argv.prefix[j])) # NoMatch)

\* Whether main has returned or the process was ended by an uncaught exception
Terminated ==
    pc \in {"done", "aborted"}

AnyFatalWrite ==
    \E j \in 1..Len(writes) : IsFatal(writes[j].result)

\* C4: the exit status is success exactly when the arguments asked for a
\* run, no configuration source failed to parse and no write failed fatally;
\* and a run in which nothing of that kind goes wrong does exit, with success.
C4_ExitStatus ==
    /\ [](pc = "done" =>
             (exit = "EXIT_SUCCESS" <=>
                 (argv.mode = "run" /\ ~parse_failed /\ ~AnyFatalWrite)))
    /\ <>(\/ pc = "done" /\ exit = "EXIT_SUCCESS"
          \/ argv.mode # "run"
          \/ pc = "aborted"
          \/ parse_failed
          \/ AnyFatalWrite)

\* C5: a parse attempt is always followed by parse_file's return, so that
\* main moves on to the next source, and every run terminates.
C5_Terminates ==
    /\ [][(ReadIniOk \/ ReadIniThrow) => fi' = fi + 1]_vars
    /\ <>Terminated

\* C8: once a source has failed to parse, the run goes on: the remaining
\* sources are parsed, apply_all runs over what was loaded and the run ends
\* with the failure status.
C8_ContinuesAfterParseError ==
    parse_failed ~>
        (/\ pc = "done"
         /\ exit = "EXIT_FAILURE"
         /\ fi = Len(Sources) + 1
         /\ WrittenIdx = PassingIdx(Len(sysctl_options)))

====
